---- MODULE Spec2Model ----
(***************************************************************************)
(* Control flow and decision logic of run_classification.py: the training  *)
(* orchestrator train() with its per-batch train_loop, the evaluation      *)
(* pass test_loop, the test() and predict drivers over saved checkpoints,  *)
(* the multi-label decision policy, and the label vocabulary built at      *)
(* startup.  Each routine has its own specification over the variables it  *)
(* uses; the other variables stay at their idle values.                    *)
(***************************************************************************)
EXTENDS Integers, Sequences, FiniteSets, TLC

(* ------------------------------ bounds --------------------------------- *)
\* largest args.num_train_epochs explored
MaxEpochs == 3
\* largest len(train_dataloader) explored
MaxBatches == 2
\* largest args.early_stop explored (the smallest is -1)
MaxBudget == 3
\* validation F1 takes the values 0/F1Scale .. F1Scale/F1Scale
F1Scale == 2
\* largest len(test_dataloader) explored
MaxTestBatches == 2
\* most weight files found in args.output_dir
MaxCheckpoints == 2
\* raw scores range over -MaxScore..MaxScore, in units of 2^-25
MaxScore == 8
\* label ids in the label file range over 0..MaxLabelId
MaxLabelId == 2

VARIABLES
    \* ---- train(): configuration
    num_train_epochs,   \* args.num_train_epochs
    num_batches,        \* len(train_dataloader)
    args_early_stop,    \* args.early_stop
    t_total,            \* line 141, the scheduler's num_training_steps
    \* ---- train(): locals
    pc,                 \* position in train() / train_loop()
    epoch,              \* loop variable of line 192 (0-based)
    step,               \* batches of the current train_loop pass already completed
    early_stop,         \* line 191
    best_f1,            \* line 190
    valid_f1,           \* line 200
    \* ---- train(): collaborators and output directory
    optimizer_steps,    \* calls of optimizer.step()
    scheduler_steps,    \* calls of lr_scheduler.step()
    weights_files,      \* weight files in args.output_dir
    config_writes,      \* times config.json was written
    \* ---- train(): history of the run, one entry per finished epoch
    train_passes,       \* completed train_loop calls
    eval_passes,        \* completed test_loop calls on the dev set
    f1_hist,            \* valid_f1 of each epoch
    stop_hist,          \* early_stop at the end of each epoch
    best_hist,          \* best_f1 at the end of each epoch
    \* ---- test() and the predict driver of __main__
    routine,            \* "test": test(); "predict": lines 410-427 with predict()
    problem_type,       \* args.problem_type
    loss_type,          \* args.loss_type
    test_batches,       \* len(test_dataloader)
    save_weights,       \* the weight files listed at lines 404-406, in listing order
    tpc,                \* position in the driver / in test_loop or predict
    ckpt,               \* weight files the driver loop has finished with
    loaded,             \* the weight file loaded into the model (0: none yet)
    batch_no,           \* num, lines 69 and 73 / 271 and 275
    all_probs,          \* predictions collected so far (all_labels grows in step)
    metrics,            \* the metrics record of lines 103-110 / 330-337
    error,              \* the exception that ended the routine
    logged,             \* test(): the log lines of line 253
    reports,            \* predict driver: weight files whose two CSVs are written
    \* ---- the multi-label decision on one example
    d_loss_type,        \* args.loss_type
    logits,             \* the example's raw scores
    probs,              \* its predicted-positive set
    dpc,
    \* ---- the label vocabulary of __main__
    label_file,         \* the JSON object of args.label_file, in file order
    label2id,
    id2label,
    num_labels,
    vpc

trainVars == <<num_train_epochs, num_batches, args_early_stop, t_total, pc, epoch, step,
               early_stop, best_f1, valid_f1, optimizer_steps, scheduler_steps,
               weights_files, config_writes, train_passes, eval_passes,
               f1_hist, stop_hist, best_hist>>

testVars == <<routine, problem_type, loss_type, test_batches, save_weights, tpc,
              ckpt, loaded, batch_no, all_probs, metrics, error, logged, reports>>

decisionVars == <<d_loss_type, logits, probs, dpc>>

vocabVars == <<label_file, label2id, id2label, num_labels, vpc>>

vars == <<trainVars, testVars, decisionVars, vocabVars>>

otherThanTrain == <<testVars, decisionVars, vocabVars>>
otherThanTest == <<trainVars, decisionVars, vocabVars>>
otherThanDecision == <<trainVars, testVars, vocabVars>>
otherThanVocab == <<trainVars, testVars, decisionVars>>

\* the variables of a routine that is not running
TrainIdle ==
    /\ num_train_epochs = 0 /\ num_batches = 0 /\ args_early_stop = 0 /\ t_total = 0
    /\ pc = "idle" /\ epoch = 0 /\ step = 0 /\ early_stop = 0
    /\ best_f1 = 0 /\ valid_f1 = 0 /\ optimizer_steps = 0 /\ scheduler_steps = 0
    /\ weights_files = {} /\ config_writes = 0 /\ train_passes = 0
    /\ eval_passes = 0 /\ f1_hist = <<>> /\ stop_hist = <<>> /\ best_hist = <<>>

TestIdle ==
    /\ routine = "idle" /\ problem_type = "idle" /\ loss_type = "idle"
    /\ test_batches = 0 /\ save_weights = <<>> /\ tpc = "idle" /\ ckpt = 0
    /\ loaded = 0 /\ batch_no = 0 /\ all_probs = <<>> /\ metrics = <<>>
    /\ error = "none" /\ logged = <<>> /\ reports = <<>>

DecisionIdle ==
    /\ d_loss_type = "idle" /\ logits = <<>> /\ probs = {} /\ dpc = "idle"

VocabIdle ==
    /\ label_file = <<>> /\ label2id = <<>> /\ id2label = <<>>
    /\ num_labels = 0 /\ vpc = "idle"

(* ------------------------------ train() -------------------------------- *)
F1Values == 0..F1Scale
Budgets == (0 - 1)..MaxBudget

\* t_total sized for a single epoch
TotalStepsOneEpoch(nb, ne) == nb

\* line 141: t_total = len(train_dataloader) * args.num_train_epochs
TotalSteps(nb, ne) == nb * ne

\* the epoch loop breaking out once the early-stop budget is used up
LoopContinuesWhileBudget(ep, stop) == ep < num_train_epochs /\ stop > 0

\* line 192: for epoch in range(args.num_train_epochs)
LoopContinues(ep, stop) == ep < num_train_epochs

\* the guard letting an epoch through at zero
BudgetLeftOrZero(stop) == stop >= 0

\* line 202: if early_stop > 0
BudgetLeft(stop) == stop > 0

\* an equal F1 counted as an improvement
ImprovedOrEqual(f1, best) == f1 >= best

\* any different F1 counted as an improvement
ImprovedOrChanged(f1, best) == f1 # best

\* line 203: if valid_f1 > best_f1
Improved(f1, best) == f1 > best

\* lines 206-208 / 221-223: the file name encodes epoch + 1 and the dev F1
SaveWeightName(ep, f1) == [epoch |-> ep + 1, dev_f1 |-> f1]

\* one weight file that every save overwrites
SaveWeightsLatestOnly(files, ep, f1) == {SaveWeightName(ep, f1)}

\* lines 209-211 / 224-226: torch.save of the state dict under that name
SaveWeights(files, ep, f1) == files \cup {SaveWeightName(ep, f1)}

TrainInit ==
    /\ num_train_epochs \in 1..MaxEpochs
    /\ num_batches \in 0..MaxBatches
    /\ args_early_stop \in Budgets
    /\ t_total = TotalSteps(num_batches, num_train_epochs)
    /\ pc = "epoch"
    /\ epoch = 0
    /\ step = 0
    /\ early_stop = args_early_stop
    /\ best_f1 = 0
    /\ valid_f1 = 0
    /\ optimizer_steps = 0
    /\ scheduler_steps = 0
    /\ weights_files = {}
    /\ config_writes = 0
    /\ train_passes = 0
    /\ eval_passes = 0
    /\ f1_hist = <<>>
    /\ stop_hist = <<>>
    /\ best_hist = <<>>
    /\ TestIdle /\ DecisionIdle /\ VocabIdle

\* line 192: the loop head; lines 196, 44-48: entering train_loop; line 233
EpochLoop ==
    /\ pc = "epoch"
    /\ IF LoopContinues(epoch, early_stop)
       THEN pc' = "batch" /\ step' = 0
       ELSE pc' = "done" /\ step' = step
    /\ UNCHANGED otherThanTrain
    /\ UNCHANGED <<num_train_epochs, num_batches, args_early_stop, t_total, epoch,
                   early_stop, best_f1, valid_f1, optimizer_steps, scheduler_steps,
                   weights_files, config_writes, train_passes, eval_passes,
                   f1_hist, stop_hist, best_hist>>

\* lines 49-57: the next batch, forward pass, zero_grad, backward;
\* line 64: the pass returns when the dataloader is exhausted
Forward ==
    /\ pc = "batch"
    /\ IF step < num_batches
       THEN pc' = "optimizer" /\ train_passes' = train_passes
       ELSE pc' = "eval" /\ train_passes' = train_passes + 1
    /\ UNCHANGED otherThanTrain
    /\ UNCHANGED <<num_train_epochs, num_batches, args_early_stop, t_total, epoch, step,
                   early_stop, best_f1, valid_f1, optimizer_steps, scheduler_steps,
                   weights_files, config_writes, eval_passes,
                   f1_hist, stop_hist, best_hist>>

\* line 58: optimizer.step()
OptimizerStep ==
    /\ pc = "optimizer"
    /\ optimizer_steps' = optimizer_steps + 1
    /\ pc' = "scheduler"
    /\ UNCHANGED otherThanTrain
    /\ UNCHANGED <<num_train_epochs, num_batches, args_early_stop, t_total, epoch, step,
                   early_stop, best_f1, valid_f1, scheduler_steps,
                   weights_files, config_writes, train_passes, eval_passes,
                   f1_hist, stop_hist, best_hist>>

\* lines 59-63: lr_scheduler.step(), then the loss bookkeeping ends the batch
SchedulerStep ==
    /\ pc = "scheduler"
    /\ scheduler_steps' = scheduler_steps + 1
    /\ step' = step + 1
    /\ pc' = "batch"
    /\ UNCHANGED otherThanTrain
    /\ UNCHANGED <<num_train_epochs, num_batches, args_early_stop, t_total, epoch,
                   early_stop, best_f1, valid_f1, optimizer_steps,
                   weights_files, config_writes, train_passes, eval_passes,
                   f1_hist, stop_hist, best_hist>>

\* lines 199-201: test_loop on the dev set returns the metrics record, whose
\* F1 is any value of the grid
DevEval ==
    /\ pc = "eval"
    /\ \E f \in F1Values : valid_f1' = f
    /\ eval_passes' = eval_passes + 1
    /\ pc' = "checkpoint"
    /\ UNCHANGED otherThanTrain
    /\ UNCHANGED <<num_train_epochs, num_batches, args_early_stop, t_total, epoch, step,
                   early_stop, best_f1, optimizer_steps, scheduler_steps,
                   weights_files, config_writes, train_passes,
                   f1_hist, stop_hist, best_hist>>

\* lines 202-232, and the loop's increment of epoch
CheckpointPolicy ==
    /\ pc = "checkpoint"
    /\ IF BudgetLeft(early_stop)
       THEN /\ IF Improved(valid_f1, best_f1)
               THEN best_f1' = valid_f1 /\ early_stop' = early_stop
               ELSE best_f1' = best_f1 /\ early_stop' = early_stop - 1
            /\ weights_files' = SaveWeights(weights_files, epoch, valid_f1)
            /\ config_writes' = config_writes + 1
       ELSE UNCHANGED <<best_f1, early_stop, weights_files, config_writes>>
    /\ f1_hist' = Append(f1_hist, valid_f1)
    /\ stop_hist' = Append(stop_hist, early_stop')
    /\ best_hist' = Append(best_hist, best_f1')
    /\ epoch' = epoch + 1
    /\ pc' = "epoch"
    /\ UNCHANGED otherThanTrain
    /\ UNCHANGED <<num_train_epochs, num_batches, args_early_stop, t_total, step, valid_f1,
                   optimizer_steps, scheduler_steps, train_passes, eval_passes>>

TrainNext ==
    \/ EpochLoop
    \/ Forward
    \/ OptimizerStep
    \/ SchedulerStep
    \/ DevEval
    \/ CheckpointPolicy

TrainSpec == TrainInit /\ [][TrainNext]_vars

\* train() is one sequential thread: whenever a step is possible it is taken
FairTrainSpec == TrainSpec /\ WF_vars(TrainNext)

(* ----------------------- the decision policy --------------------------- *)
ProblemTypes == {"single_label_classification", "multi_label_classification", "other"}
\* "focal" stands for every loss_type that is neither BCE nor ZLPR
LossTypes == {"BCE", "ZLPR", "focal"}
Classes == 0..1
\* A raw score n is the float32 value n * 2^-25.
Scores == (0 - MaxScore)..MaxScore

\* line 85, torch.sigmoid on float32: the float32 nearest to
\* 1/(1 + e^-x) = 1/2 + x/4 - x^3/48 + ...  Around 1/2 the float32 values are
\* 2^-24 apart above and 2^-25 apart below.  The result is given as its
\* distance from 1/2 in units of 2^-25: exactly that is n/4, less a cubic term
\* that only decides the ties, toward 1/2.  (An implementation that rounds
\* its intermediate results can land on the other neighbour at a tie, such as
\* n = 4; nothing stated below rests on the value at a tie.)
Sigmoid(n) ==
    IF n >= 0 THEN 2 * ((n + 3) \div 8) ELSE 0 - (((0 - n) + 1) \div 4)

\* line 86: probs > 0.5, on the sigmoid's distance from 1/2
BCEPositive(n) == Sigmoid(n) > 0

\* the zero threshold taken inclusively
ZLPRPositiveOrZero(n) == n >= 0

\* line 88: logits > 0
ZLPRPositive(n) == n > 0

\* lines 84, 87 / 286, 289: the two loss types the decision knows
KnownLossType(lt) == lt \in {"BCE", "ZLPR"}

\* lines 84-88 / 286-290: the multi-hot prediction, as the set of its ones
MultiLabelDecision(lt, lg) ==
    IF lt = "BCE" THEN {i \in DOMAIN lg : BCEPositive(lg[i])}
    ELSE {i \in DOMAIN lg : ZLPRPositive(lg[i])}

\* lines 80 / 282: logits.argmax(dim=-1), the first index of the maximum
Argmax(lg) ==
    CHOOSE i \in DOMAIN lg :
        /\ \A j \in DOMAIN lg : lg[j] <= lg[i]
        /\ \A j \in DOMAIN lg : j < i => lg[j] < lg[i]

DecisionInit ==
    /\ d_loss_type \in LossTypes
    /\ logits \in [Classes -> Scores]
    /\ probs = {}
    /\ dpc = "scored"
    /\ TrainIdle /\ TestIdle /\ VocabIdle

\* lines 83-90 / 285-292 on one example under multi_label_classification
Decide ==
    /\ dpc = "scored"
    /\ IF KnownLossType(d_loss_type)
       THEN probs' = MultiLabelDecision(d_loss_type, logits) /\ dpc' = "decided"
       ELSE probs' = probs /\ dpc' = "raised"
    /\ UNCHANGED <<d_loss_type, logits>>
    /\ UNCHANGED otherThanDecision

DecisionNext == Decide

DecisionSpec == DecisionInit /\ [][DecisionNext]_vars

(* ---------------- test() and the predict driver of __main__ ------------ *)
LossTypeError == "loss_type must be ZLPR or BCE"
ProblemTypeError ==
    "problem_type must be single_label_classification or multi_label_classification"
ConcatenateError == "need at least one array to concatenate"
UnboundLocalError == "local variable 'accuracy' referenced before assignment"
UnpackError == "not enough values to unpack (expected 3, got 1)"

\* lines 404-406: the weight files, numbered, in any listing order
WeightLists ==
    {w \in UNION {[1..n -> 1..MaxCheckpoints] : n \in 0..MaxCheckpoints} :
        \A i, j \in DOMAIN w : i # j => w[i] # w[j]}

\* lines 103-110 / 330-337: the record has the one key "label"
MetricsRecord(a, p, r, f) ==
    [label |-> [accuracy |-> a, precision |-> p, recall |-> r, f1 |-> f]]

\* line 252: test_acc, test_recall, test_f1 = <dict> takes the dict's keys,
\* and needs exactly three of them
UnpacksIntoThree(d) == Cardinality(DOMAIN d) = 3

TestInit ==
    /\ routine \in {"test", "predict"}
    /\ problem_type \in ProblemTypes
    /\ loss_type \in LossTypes
    /\ test_batches \in 0..MaxTestBatches
    /\ save_weights \in WeightLists
    /\ tpc = "next"
    /\ ckpt = 0
    /\ loaded = 0
    /\ batch_no = 0
    /\ all_probs = <<>>
    /\ metrics = <<>>
    /\ error = "none"
    /\ logged = <<>>
    /\ reports = <<>>
    /\ TrainIdle /\ DecisionIdle /\ VocabIdle

\* lines 249-252 / 413-418: the driver's loop head, load_state_dict, and the
\* call's first lines (68-70 / 270-272)
NextCheckpoint ==
    /\ tpc = "next"
    /\ IF ckpt < Len(save_weights)
       THEN /\ loaded' = save_weights[ckpt + 1]
            /\ tpc' = "batch"
       ELSE /\ loaded' = loaded
            /\ tpc' = "done"
    /\ batch_no' = 0
    /\ all_probs' = <<>>
    /\ metrics' = <<>>
    /\ UNCHANGED <<routine, problem_type, loss_type, test_batches, save_weights,
                   ckpt, error, logged, reports>>
    /\ UNCHANGED otherThanTest

\* lines 72-92 / 274-318: one batch (of one example) of test_loop or predict
EvalBatch ==
    /\ tpc = "batch"
    /\ IF batch_no < test_batches
       THEN /\ batch_no' = batch_no + 1
            /\ \E lg \in [Classes -> Scores] :
                 IF problem_type = "single_label_classification"
                 THEN /\ all_probs' = Append(all_probs, Argmax(lg))
                      /\ tpc' = "batch" /\ error' = error
                 ELSE IF problem_type = "multi_label_classification"
                 THEN IF KnownLossType(loss_type)
                      THEN /\ all_probs' = Append(all_probs,
                                                  MultiLabelDecision(loss_type, lg))
                           /\ tpc' = "batch" /\ error' = error
                      ELSE /\ all_probs' = all_probs
                           /\ tpc' = "raised" /\ error' = LossTypeError
                 ELSE IF routine = "predict"
                 THEN /\ all_probs' = all_probs
                      /\ tpc' = "raised" /\ error' = ProblemTypeError
                 ELSE /\ all_probs' = all_probs
                      /\ tpc' = "batch" /\ error' = error
       ELSE /\ tpc' = "aggregate"
            /\ UNCHANGED <<batch_no, all_probs, error>>
    /\ UNCHANGED <<routine, problem_type, loss_type, test_batches, save_weights,
                   ckpt, loaded, metrics, logged, reports>>
    /\ UNCHANGED otherThanTest

\* lines 93-111 / 319-337: np.concatenate, the metrics, the record
Aggregate ==
    /\ tpc = "aggregate"
    /\ IF problem_type = "multi_label_classification" /\ all_probs = <<>>
       THEN tpc' = "raised" /\ error' = ConcatenateError /\ metrics' = metrics
       ELSE IF problem_type = "other"
       THEN tpc' = "raised" /\ error' = UnboundLocalError /\ metrics' = metrics
       ELSE /\ \E a, p, r, f \in F1Values : metrics' = MetricsRecord(a, p, r, f)
            /\ tpc' = "returned" /\ error' = error
    /\ UNCHANGED <<routine, problem_type, loss_type, test_batches, save_weights,
                   ckpt, loaded, batch_no, all_probs, logged, reports>>
    /\ UNCHANGED otherThanTest

\* test(), lines 252-255: unpack the returned record and log;
\* predict driver, lines 339-351 and 418-427: the report and the two CSVs
Returned ==
    /\ tpc = "returned"
    /\ IF routine = "test"
       THEN IF UnpacksIntoThree(metrics)
            THEN /\ logged' = Append(logged, loaded)
                 /\ ckpt' = ckpt + 1
                 /\ tpc' = "next" /\ error' = error /\ reports' = reports
            ELSE /\ tpc' = "raised" /\ error' = UnpackError
                 /\ UNCHANGED <<logged, ckpt, reports>>
       ELSE /\ reports' = Append(reports, loaded)
            /\ ckpt' = ckpt + 1
            /\ tpc' = "next" /\ error' = error /\ logged' = logged
    /\ UNCHANGED <<routine, problem_type, loss_type, test_batches, save_weights,
                   loaded, batch_no, all_probs, metrics>>
    /\ UNCHANGED otherThanTest

TestNext ==
    \/ NextCheckpoint
    \/ EvalBatch
    \/ Aggregate
    \/ Returned

TestSpec == TestInit /\ [][TestNext]_vars

(* ---------------------- the label vocabulary --------------------------- *)
LabelNames == {"A", "B", "C"}
LabelIdsInFile == 0..MaxLabelId

\* a JSON object with distinct keys: a sequence of <<name, id>> in file order
LabelFiles ==
    {lf \in UNION {[1..n -> LabelNames \X LabelIdsInFile] : n \in 0..Cardinality(LabelNames)} :
        \A i, j \in DOMAIN lf : i # j => lf[i][1] # lf[j][1]}

\* lines 357-358: json.load gives the dict name -> id
LoadLabel2Id(lf) ==
    [nm \in {lf[i][1] : i \in DOMAIN lf} |->
        lf[CHOOSE i \in DOMAIN lf : lf[i][1] = nm][2]]

\* the inverse built from the position of each name in the file
InvertByPosition(lf) == [v \in 0..(Len(lf) - 1) |-> lf[v + 1][1]]

\* line 360: {v: k for k, v in label2id.items()}; a later entry with the same
\* id replaces an earlier one
InvertLabel2Id(lf) ==
    [v \in {lf[i][2] : i \in DOMAIN lf} |->
        lf[CHOOSE i \in DOMAIN lf :
              /\ lf[i][2] = v
              /\ \A j \in DOMAIN lf : lf[j][2] = v => j <= i][1]]

VocabInit ==
    /\ label_file \in LabelFiles
    /\ label2id = <<>>
    /\ id2label = <<>>
    /\ num_labels = 0
    /\ vpc = "start"
    /\ TrainIdle /\ TestIdle /\ DecisionIdle

\* lines 357-361
LoadVocabulary ==
    /\ vpc = "start"
    /\ label2id' = LoadLabel2Id(label_file)
    /\ id2label' = InvertLabel2Id(label_file)
    /\ num_labels' = Cardinality(DOMAIN LoadLabel2Id(label_file))
    /\ vpc' = "loaded"
    /\ UNCHANGED label_file
    /\ UNCHANGED otherThanVocab

VocabNext == LoadVocabulary

VocabSpec == VocabInit /\ [][VocabNext]_vars

(* ------------------------- properties of train() ----------------------- *)
Epochs == 1..Len(f1_hist)
\* early_stop and best_f1 as epoch e found them
StopBefore(e) == IF e = 1 THEN args_early_stop ELSE stop_hist[e - 1]
BestBefore(e) == IF e = 1 THEN 0 ELSE best_hist[e - 1]
SavedEpochs == {f.epoch : f \in weights_files}
NonImprovingSaved == {e \in SavedEpochs \cap Epochs : f1_hist[e] <= BestBefore(e)}
\* the F1 grid's value for 0.5, when it has one
HalfF1 == {h \in F1Values : 2 * h = F1Scale}

C4_BestF1Monotone ==
    /\ \A e \in Epochs : best_hist[e] >= BestBefore(e)
    /\ \A i, j \in Epochs : i <= j => best_hist[i] <= best_hist[j]
    /\ Len(best_hist) = 0 => best_f1 = 0
    /\ Len(best_hist) > 0 => best_f1 = best_hist[Len(best_hist)]

\* a run whose F1 rose and then fell while the counter was above zero
C4_Witness ==
    /\ pc = "done"
    /\ \E e \in Epochs : /\ e > 1
                         /\ StopBefore(e) > 0
                         /\ f1_hist[e] < f1_hist[e - 1]
                         /\ best_hist[e - 1] > 0
                         /\ best_hist[e] = best_hist[e - 1]

\* batches finished so far in the whole run
BatchesDone ==
    train_passes * num_batches + (IF pc \in {"batch", "optimizer", "scheduler"} THEN step ELSE 0)

\* C9: every batch takes one optimizer step and then one scheduler step before
\* the next batch starts, no step is taken outside a batch (none during the
\* dev pass), and the scheduler steps never exceed, and at the end equal,
\* num_train_epochs * len(train_dataloader).
C9_OneStepPerBatch ==
    /\ [](/\ scheduler_steps = BatchesDone
          /\ optimizer_steps = BatchesDone + (IF pc = "scheduler" THEN 1 ELSE 0)
          /\ scheduler_steps <= t_total
          /\ pc = "done" => /\ scheduler_steps = t_total
                            /\ t_total = num_train_epochs * num_batches)
    /\ [][/\ optimizer_steps' # optimizer_steps =>
                /\ pc = "optimizer"
                /\ optimizer_steps' = optimizer_steps + 1
                /\ scheduler_steps' = scheduler_steps
          /\ scheduler_steps' # scheduler_steps =>
                /\ pc = "scheduler"
                /\ scheduler_steps' = scheduler_steps + 1
                /\ optimizer_steps' = optimizer_steps
                /\ scheduler_steps' = optimizer_steps
          /\ pc \in {"eval", "checkpoint"} =>
                UNCHANGED <<optimizer_steps, scheduler_steps>>]_vars

\* the longest run with the most batches, finished
C9_Witness ==
    /\ pc = "done"
    /\ num_batches = MaxBatches
    /\ num_train_epochs = MaxEpochs
    /\ optimizer_steps = MaxBatches * MaxEpochs
    /\ scheduler_steps = MaxBatches * MaxEpochs

\* C10: with a budget of zero or more the counter stays in 0..budget; an epoch
\* that finds it at zero changes neither the counter nor best_f1 and writes no
\* weight file and no config.json; so the epochs with a weight file are a
\* prefix 1..k of the run, and at most budget of them did not improve.
C10_CounterFloorsAtZero ==
    args_early_stop >= 0 =>
        /\ early_stop \in 0..args_early_stop
        /\ \A e \in Epochs :
              StopBefore(e) = 0 => /\ stop_hist[e] = 0
                                   /\ best_hist[e] = BestBefore(e)
                                   /\ e \notin SavedEpochs
        /\ \A i, j \in Epochs : (StopBefore(i) = 0 /\ i <= j) => StopBefore(j) = 0
        /\ config_writes = Cardinality(SavedEpochs)
        /\ \E k \in 0..Len(f1_hist) : SavedEpochs = 1..k
        /\ Cardinality(NonImprovingSaved) <= args_early_stop

\* a run that used up a positive budget and then saw a better F1 go unrecorded
C10_Witness ==
    /\ pc = "done"
    /\ args_early_stop >= 1
    /\ \E e \in Epochs : /\ StopBefore(e) = 0
                         /\ f1_hist[e] > BestBefore(e)
                         /\ e \notin SavedEpochs
    /\ Cardinality(NonImprovingSaved) = args_early_stop

(* ---------------- properties of test() and the predict driver ---------- *)
\* C5: test(), given a non-empty list of weight files, a known problem type
\* and loss type and a non-empty test set, goes through every weight file in
\* list order, logging the metrics of each, and raises nothing.
C5_TestProcessesEveryCheckpoint ==
    (/\ routine = "test"
     /\ save_weights # <<>>
     /\ test_batches >= 1
     /\ problem_type # "other"
     /\ loss_type \in {"BCE", "ZLPR"})
    => /\ tpc # "raised"
       /\ error = "none"
       /\ logged = SubSeq(save_weights, 1, ckpt)
       /\ tpc = "done" => logged = save_weights

\* C6: under multi_label_classification a loss_type other than BCE or ZLPR
\* lets neither test_loop nor predict return a metrics record, and the error
\* that ends them is 'loss_type must be ZLPR or BCE', whatever the number of
\* batches, zero included.
C6_UnknownLossTypeAborts ==
    (/\ routine \in {"test", "predict"}
     /\ problem_type = "multi_label_classification"
     /\ loss_type \notin {"BCE", "ZLPR"})
    => /\ metrics = <<>>
       /\ tpc # "returned"
       /\ tpc = "raised" => error = LossTypeError

(* -------------------- properties of the decision policy ---------------- *)
PositiveScores == {i \in DOMAIN logits : logits[i] > 0}

\* C7 as stated: under ZLPR and under BCE alike the predicted-positive set is
\* exactly the set of indices whose raw score is strictly above 0.
C7_BoundariesCoincide ==
    dpc = "decided" => probs = PositiveScores

\* C7 amended: under ZLPR the predicted-positive set is exactly the indices
\* whose raw score is strictly above 0.  Under BCE (float32 sigmoid, then
\* > 0.5) it is a subset of that set: a score of 0 or below is negative under
\* both, every score of at least 2^-22 is positive under both, and a smaller
\* positive score can be negative under BCE because its sigmoid rounds to 0.5.
C7_BoundariesCoincideAwayFromZero ==
    dpc = "decided" =>
        /\ d_loss_type = "ZLPR" => probs = PositiveScores
        /\ d_loss_type = "BCE" =>
              /\ probs \subseteq PositiveScores
              /\ {i \in DOMAIN logits : logits[i] >= 8} \subseteq probs
        /\ \A i \in DOMAIN logits : logits[i] <= 0 => i \notin probs

\* a BCE decision that takes a score of 2^-22 and drops one of 2^-25
C7_Witness ==
    /\ dpc = "decided"
    /\ d_loss_type = "BCE"
    /\ \E i, j \in DOMAIN logits : /\ logits[i] = 1 /\ i \notin probs
                                   /\ logits[j] = 8 /\ j \in probs

(* -------------------- properties of the label vocabulary --------------- *)
\* the data model's invariant: the file's ids are distinct and are 0..n-1
ContiguousIds ==
    /\ \A i, j \in DOMAIN label_file : i # j => label_file[i][2] # label_file[j][2]
    /\ {label_file[i][2] : i \in DOMAIN label_file} = 0..(Len(label_file) - 1)

====
